---- MODULE Spec2Model ----
(***************************************************************************)
(* PastePack (src/pastepack.py): discovery -> extension filter -> bundle   *)
(* -> sinks, as a state machine.                                           *)
(*                                                                         *)
(* Strings are sequences of character codes (ASCII), so that startswith,   *)
(* lower(), fnmatch and Python's string ordering are computed, not         *)
(* assumed.  A resolved absolute path is the sequence of its segments      *)
(* below the root "/" (Path.parts[1:]).                                    *)
(***************************************************************************)
EXTENDS Integers, Sequences, FiniteSets, TLC

VARIABLES
    fs,        \* the file tree: resolved file path -> [len, kind]
    cwd,       \* the process's working directory (resolved segments)
    args,      \* the parsed command line (argparse.Namespace)
    pc,        \* main()'s position
    pidx,      \* walk_inputs: index of the input path being handled
    stack,     \* walk_inputs: os.walk's pending directories of the current input
    walkroot,  \* walk_inputs: the resolved directory input being walked (p)
    entries,   \* the list of FileEntry (main's and bundle's `entries`)
    idx,       \* bundle: index of the next candidate of the for loop
    total,     \* bundle: total
    included,  \* bundle: included
    blocks,    \* bundle: the file blocks written to `out`, in order
    warnings,  \* bundle: warnings
    intro,     \* bundle: the preamble's file_count and total_bytes
    outfile,   \* what args.out holds after main ("none" | "artifact")
    clipboard, \* what the clipboard holds after main ("none" | "artifact")
    stdout,    \* whether main printed the artifact to standard output
    exit,      \* main's return value (-1 while running)
    run,       \* which run of the program this is (1 or 2)
    prev       \* the blocks and warnings the previous run returned

vars == <<fs, cwd, args, pc, pidx, stack, walkroot, entries, idx, total, included,
          blocks, warnings, intro, outfile, clipboard, stdout, exit, run, prev>>

----------------------------------------------------------------------------
(* Bounds of the model *)

\* most files in the tree of a pipeline run
MaxFiles == 2
\* most files in the tree of a traversal run
MaxWalkFiles == 2
\* most candidates handed to bundle() by itself
MaxEntries == 3
\* largest raw length of a file, in bytes
MaxLen == 2

----------------------------------------------------------------------------
(* Strings *)

Dot   == <<46>>
Slash == <<47>>

StartsWith(s, pre) == Len(pre) <= Len(s) /\ SubSeq(s, 1, Len(pre)) = pre

\* str.lower() on ASCII: 'A'..'Z' -> 'a'..'z'
LowerChar(c) == IF c >= 65 /\ c <= 90 THEN c + 32 ELSE c
Lower(s) == [i \in 1..Len(s) |-> LowerChar(s[i])]

\* Python's str <: code point by code point, a proper prefix is smaller
RECURSIVE StrLess(_, _)
StrLess(s, t) ==
    IF t = <<>> THEN FALSE
    ELSE IF s = <<>> THEN TRUE
    ELSE IF Head(s) # Head(t) THEN Head(s) < Head(t)
    ELSE StrLess(Tail(s), Tail(t))

StrLeq(s, t) == s = t \/ StrLess(s, t)

\* sep.join(segs)
RECURSIVE Join(_, _)
Join(segs, sep) ==
    IF segs = <<>> THEN <<>>
    ELSE IF Len(segs) = 1 THEN segs[1]
    ELSE segs[1] \o sep \o Join(Tail(segs), sep)

\* str(Path) of a resolved absolute path
AbsStr(segs) == Slash \o Join(segs, Slash)
\* str(Path) of a relative path (str(fe.rel))
RelStr(segs) == IF segs = <<>> THEN Dot ELSE Join(segs, Slash)

\* index of the last '.' of a name, 0 when there is none (str.rfind + 1)
RECURSIVE RFindDot(_, _)
RFindDot(name, i) ==
    IF i = 0 THEN 0
    ELSE IF name[i] = 46 THEN i
    ELSE RFindDot(name, i - 1)

\* Path.suffix: the last dotted part of the name; none for a leading or a
\* trailing dot
Suffix(name) ==
    LET i == RFindDot(name, Len(name))
    IN IF i > 1 /\ i < Len(name) THEN SubSeq(name, i, Len(name)) ELSE <<>>

\* fnmatch.fnmatch on POSIX (normcase is the identity): '*' matches any run
\* of characters ('/' included), '?' any one character
RECURSIVE FnMatch(_, _)
FnMatch(s, pat) ==
    IF pat = <<>> THEN s = <<>>
    ELSE IF Head(pat) = 42
         THEN FnMatch(s, Tail(pat)) \/ (s # <<>> /\ FnMatch(Tail(s), pat))
    ELSE IF s = <<>> THEN FALSE
    ELSE IF Head(pat) = 63 THEN FnMatch(Tail(s), Tail(pat))
    ELSE Head(s) = Head(pat) /\ FnMatch(Tail(s), Tail(pat))

\* os.path.abspath of a string without '.', '..' or doubled separators: a
\* relative string is joined to the working directory, a trailing separator
\* is dropped
AbsPath(s, wd) ==
    LET full == IF StartsWith(s, Slash) THEN s
                ELSE IF wd = <<>> THEN Slash \o s
                ELSE AbsStr(wd) \o Slash \o s
    IN IF Len(full) > 1 /\ full[Len(full)] = 47
       THEN SubSeq(full, 1, Len(full) - 1) ELSE full

\* matches_any(name, patterns)
MatchesAny(name, patterns, wd) ==
    \E k \in 1..Len(patterns) :
        IF StartsWith(patterns[k], Slash)
        THEN StartsWith(AbsPath(name, wd), AbsPath(patterns[k], wd))
        ELSE FnMatch(name, patterns[k])

----------------------------------------------------------------------------
(* The file tree, the working directory and the command line *)

n_w    == <<119>>
n_p    == <<112>>
n_s    == <<115>>
n_out  == <<111, 117, 116>>
n_dg   == <<46, 103>>
n_dc   == <<46, 99>>
n_zz   == <<122, 122>>
n_a_py == <<97, 46, 112, 121>>
n_A_py == <<65, 46, 112, 121>>
n_B_py == <<66, 46, 112, 121>>
n_b_py == <<98, 46, 112, 121>>
n_c_py == <<99, 46, 112, 121>>
n_e_py == <<101, 46, 112, 121>>
n_x_js == <<120, 46, 106, 115>>
n_dh   == <<46, 104>>
n_b_js == <<98, 46, 106, 115>>

\* the files a tree may hold:
\*   /w/p/a.py  /w/p/A.py  /w/p/B.py  /w/p/.h  /w/p/out/x.js
\*   /w/p/.g/c.py  /w/p/s/b.py  /w/.c/e.py
AllFiles ==
    { <<n_w, n_p, n_a_py>>, <<n_w, n_p, n_A_py>>, <<n_w, n_p, n_B_py>>,
      <<n_w, n_p, n_dh>>, <<n_w, n_p, n_out, n_x_js>>,
      <<n_w, n_p, n_dg, n_c_py>>, <<n_w, n_p, n_s, n_b_py>>,
      <<n_w, n_dc, n_e_py>> }

\* a file's content as far as the program looks at it: its raw length and
\* whether it is text, holds a NUL byte in its first 1024 bytes ("binary"),
\* cannot be opened ("noopen"), or opens for the sample but fails on the
\* full read ("flaky")
Kinds == {"text", "binary", "noopen", "flaky"}

Trees(files, k, lens, kinds) ==
    UNION { [S -> [len : lens, kind : kinds]] :
            S \in {T \in SUBSET files : Cardinality(T) <= k} }

\* an input path as typed: absolute or relative to the working directory,
\* without '..' and without symbolic links
PathArg(abs, segs) == [abs |-> abs, segs |-> segs]

\* ".", "/w/p", "/w/.c", "/w/p/a.py", "/w/.c/e.py", "/w/p/s", "/w/zz"
InputPaths ==
    { PathArg(FALSE, <<>>), PathArg(TRUE, <<n_w, n_p>>), PathArg(TRUE, <<n_w, n_dc>>),
      PathArg(TRUE, <<n_w, n_p, n_a_py>>), PathArg(TRUE, <<n_w, n_dc, n_e_py>>),
      PathArg(TRUE, <<n_w, n_p, n_s>>), PathArg(TRUE, <<n_w, n_zz>>) }

WorkDirs == { <<n_w, n_p>>, <<n_w, n_dc>> }

\* DEFAULT_EXCLUDES: the entries that can match a name of AllFiles
\* ("out", "*.pyc")
DEFAULT_EXCLUDES == << n_out, <<42, 46, 112, 121, 99>> >>

\* what --exclude may add: nothing, "s", "/w/p/s", "*/.c/*"
UserExcludes ==
    { <<>>, << n_s >>, << <<47, 119, 47, 112, 47, 115>> >>,
      << <<42, 47, 46, 99, 47, 42>> >> }

\* --ext: "*", ".py", ".PY,.js"
ExtArgs ==
    { << <<42>> >>, << <<46, 112, 121>> >>,
      << <<46, 80, 89>>, <<46, 106, 115>> >> }

\* Path.resolve() of an input path
Resolve(p, wd) == IF p.abs THEN p.segs ELSE wd \o p.segs

IsPrefix(d, f) == Len(d) <= Len(f) /\ SubSeq(f, 1, Len(d)) = d

\* Path.is_file(), Path.is_dir(), Path.exists(): a directory is the working
\* directory, the root, or an ancestor of a file
IsFile(p, tree) == p \in DOMAIN tree
IsDir(p, tree, wd) ==
    \/ IsPrefix(p, wd)
    \/ \E f \in DOMAIN tree : IsPrefix(p, f) /\ Len(p) < Len(f)
Exists(p, tree, wd) == IsFile(p, tree) \/ IsDir(p, tree, wd)

\* is_text_file(p)
is_text_file(p, tree) ==
    CASE tree[p].kind = "noopen" -> FALSE
      [] tree[p].kind = "binary" -> FALSE
      [] OTHER -> TRUE

\* FileEntry (mtime is not modelled)
FileEntry(root, path, rel, size) ==
    [root |-> root, path |-> path, rel |-> rel, size |-> size]

----------------------------------------------------------------------------
(* walk_inputs *)

IsHiddenName(name) == StartsWith(name, Dot)

\* line 138: any(part.startswith(".") for part in p.parts[1:])
HiddenPath(p) == \E k \in 1..Len(p) : IsHiddenName(p[k])

\* lines 138-142: does the file given as an input path become a candidate?
FileInputKept(p, tree, a, wd) ==
    /\ ~(~a.include_hidden /\ HiddenPath(p))
    /\ ~(MatchesAny(p[Len(p)], a.exclude, wd) \/ MatchesAny(AbsStr(p), a.exclude, wd))
    /\ is_text_file(p, tree)

\* Pruned without the exclusion patterns: only hidden directories are pruned
PrunedHiddenOnly(dirpath, d, a, wd) == ~a.include_hidden /\ IsHiddenName(d)

\* line 152: is the subdirectory d of dirpath pruned?
Pruned(dirpath, d, a, wd) ==
    \/ (~a.include_hidden /\ IsHiddenName(d))
    \/ MatchesAny(d, a.exclude, wd)
    \/ MatchesAny(AbsStr(Append(dirpath, d)), a.exclude, wd)

\* lines 157-162: does the file f of dirpath become a candidate?
DirFileKept(dirpath, f, tree, a, wd) ==
    /\ ~(~a.include_hidden /\ IsHiddenName(f))
    /\ ~(MatchesAny(f, a.exclude, wd) \/ MatchesAny(AbsStr(Append(dirpath, f)), a.exclude, wd))
    /\ is_text_file(Append(dirpath, f), tree)

\* the names os.walk lists in a directory
FileNames(dirpath, tree) ==
    { f[Len(f)] : f \in {g \in DOMAIN tree : Len(g) = Len(dirpath) + 1 /\ IsPrefix(dirpath, g)} }
DirNames(dirpath, tree) ==
    { f[Len(dirpath) + 1] : f \in {g \in DOMAIN tree : Len(g) > Len(dirpath) + 1 /\ IsPrefix(dirpath, g)} }

\* the orders in which the host may enumerate a set of names
Orders(S) ==
    { s \in [1..Cardinality(S) -> S] : \A i, j \in 1..Cardinality(S) : s[i] = s[j] => i = j }

\* lines 135-146: the next input path: a file is checked and yielded, a
\* directory starts an os.walk, anything else is passed over
WalkInput ==
    /\ pc = "walk"
    /\ stack = <<>>
    /\ pidx <= Len(args.paths)
    /\ LET p == Resolve(args.paths[pidx], cwd) IN
        IF IsFile(p, fs)
        THEN /\ entries' = IF FileInputKept(p, fs, args, cwd)
                           THEN Append(entries,
                                    FileEntry(SubSeq(p, 1, Len(p) - 1), p, <<p[Len(p)]>>, fs[p].len))
                           ELSE entries
             /\ pidx' = pidx + 1
             /\ UNCHANGED <<stack, walkroot>>
        ELSE IF IsDir(p, fs, cwd)
        THEN /\ stack' = <<p>>
             /\ walkroot' = p
             /\ UNCHANGED <<entries, pidx>>
        ELSE /\ pidx' = pidx + 1
             /\ UNCHANGED <<entries, stack, walkroot>>
    /\ UNCHANGED <<fs, cwd, args, pc, idx, total, included, blocks, warnings, intro,
                   outfile, clipboard, stdout, exit, run, prev>>

\* lines 147-165: one iteration of os.walk(p), top-down: the directory's
\* subdirectories and files are listed in the host's order, pruned
\* subdirectories are dropped from the descent, the files that pass are
\* yielded, and the kept subdirectories are walked next
WalkDirStep ==
    /\ pc = "walk"
    /\ stack # <<>>
    /\ LET dirpath == Head(stack) IN
        \E dirnames \in Orders(DirNames(dirpath, fs)),
           filenames \in Orders(FileNames(dirpath, fs)) :
            LET keptdirs == SelectSeq(dirnames, LAMBDA d : ~Pruned(dirpath, d, args, cwd))
                keptfiles == SelectSeq(filenames,
                                LAMBDA f : DirFileKept(dirpath, f, fs, args, cwd))
                yielded == [k \in 1..Len(keptfiles) |->
                              LET full == Append(dirpath, keptfiles[k]) IN
                              FileEntry(walkroot, full,
                                        SubSeq(full, Len(walkroot) + 1, Len(full)),
                                        fs[full].len)]
                rest == [k \in 1..Len(keptdirs) |-> Append(dirpath, keptdirs[k])] \o Tail(stack)
            IN /\ entries' = entries \o yielded
               /\ stack' = rest
               /\ pidx' = IF rest = <<>> THEN pidx + 1 ELSE pidx
    /\ UNCHANGED <<fs, cwd, args, pc, walkroot, idx, total, included, blocks, warnings,
                   intro, outfile, clipboard, stdout, exit, run, prev>>

----------------------------------------------------------------------------
(* filter_by_ext and main's pre-flight *)

\* lines 168-176: args.ext is held as the list of its comma-separated items
filter_by_ext(es, allowed_exts) ==
    IF allowed_exts = <<>> \/ allowed_exts = << <<42>> >>
    THEN es
    ELSE LET allowed == { Lower(allowed_exts[k]) : k \in 1..Len(allowed_exts) }
         IN SelectSeq(es, LAMBDA fe : Lower(Suffix(fe.path[Len(fe.path)])) \in allowed)

----------------------------------------------------------------------------
(* bundle *)

\* SortKey without lower(): a case-sensitive sort
SortKeyCaseSensitive(fe) == RelStr(fe.rel)

\* line 212: the sort key
SortKey(fe) == Lower(RelStr(fe.rel))

\* sorted() is stable: an element goes behind every element whose key is
\* not greater than its own
InsertSorted(s, x) ==
    LET before == { i \in 1..Len(s) : ~StrLess(SortKey(x), SortKey(s[i])) }
        k == IF before = {} THEN 0 ELSE CHOOSE i \in before : \A j \in before : j <= i
    IN SubSeq(s, 1, k) \o <<x>> \o SubSeq(s, k + 1, Len(s))

RECURSIVE Sorted(_)
Sorted(s) ==
    IF s = <<>> THEN <<>>
    ELSE InsertSorted(Sorted(SubSeq(s, 1, Len(s) - 1)), s[Len(s)])

\* line 216: fe.path.read_bytes() succeeds
ReadOk(path, tree) == path \in DOMAIN tree /\ tree[path].kind \in {"text", "binary"}

\* line 221
ExceedsFile(n, a) == a.max_file_bytes > 0 /\ n > a.max_file_bytes

\* ExceedsTotal without the candidate's own length
ExceedsTotalBefore(t, n, a) == a.max_total_bytes > 0 /\ t > a.max_total_bytes

\* line 225
ExceedsTotal(t, n, a) == a.max_total_bytes > 0 /\ (t + n) > a.max_total_bytes

\* Verdict with the total budget checked before the per-file limit
VerdictBudgetFirst(fe, t, tree, a) ==
    IF ~ReadOk(fe.path, tree) THEN "read"
    ELSE IF ExceedsTotal(t, tree[fe.path].len, a) THEN "stop"
    ELSE IF ExceedsFile(tree[fe.path].len, a) THEN "size"
    ELSE "include"

\* lines 215-229: what the loop body does with a candidate
Verdict(fe, t, tree, a) ==
    IF ~ReadOk(fe.path, tree) THEN "read"
    ELSE IF ExceedsFile(tree[fe.path].len, a) THEN "size"
    ELSE IF ExceedsTotal(t, tree[fe.path].len, a) THEN "stop"
    ELSE "include"

\* NextIdx with the break of line 229 taken for a continue
NextIdxNoBreak(verdict, i, n) == i + 1

\* lines 219, 223, 229, 249: continue goes to the next candidate, break
\* leaves the loop (n is the number of candidates)
NextIdx(verdict, i, n) == IF verdict = "stop" THEN n + 1 ELSE i + 1

\* lines 218, 222, 226-228: the warning of a verdict, by its kind and the
\* path it prints (fe.path for a read error, fe.rel otherwise)
Warning(verdict, fe) ==
    IF verdict = "read" THEN [kind |-> "read", file |-> fe.path]
    ELSE [kind |-> verdict, file |-> fe.rel]

\* lines 191-202, 238-246: a file block, by its header's path, abspath and size
Block(fe, n) == [path |-> fe.rel, abspath |-> fe.path, size |-> n]

\* lines 206-212: bundle() starts: empty output, no warnings, zero
\* counters, the candidates sorted
BundleStart ==
    /\ pc = "bundle"
    /\ blocks' = <<>>
    /\ warnings' = <<>>
    /\ total' = 0
    /\ included' = 0
    /\ entries' = Sorted(entries)
    /\ idx' = 1
    /\ pc' = "loop"
    /\ UNCHANGED <<fs, cwd, args, pidx, stack, walkroot, intro, outfile, clipboard,
                   stdout, exit, run, prev>>

\* lines 214-249: one iteration of the for loop
BundleStep ==
    /\ pc = "loop"
    /\ idx <= Len(entries)
    /\ LET fe == entries[idx]
           v == Verdict(fe, total, fs, args)
       IN /\ idx' = NextIdx(v, idx, Len(entries))
          /\ IF v = "include"
             THEN /\ blocks' = Append(blocks, Block(fe, fs[fe.path].len))
                  /\ total' = total + fs[fe.path].len
                  /\ included' = included + 1
                  /\ UNCHANGED warnings
             ELSE /\ warnings' = Append(warnings, Warning(v, fe))
                  /\ UNCHANGED <<blocks, total, included>>
    /\ UNCHANGED <<fs, cwd, args, pc, pidx, stack, walkroot, entries, intro, outfile,
                   clipboard, stdout, exit, run, prev>>

\* lines 251-259: the preamble and the return
BundleFinish ==
    /\ pc = "loop"
    /\ idx > Len(entries)
    /\ intro' = [file_count |-> included, total_bytes |-> total]
    /\ pc' = "out"
    /\ UNCHANGED <<fs, cwd, args, pidx, stack, walkroot, entries, idx, total, included,
                   blocks, warnings, outfile, clipboard, stdout, exit, run, prev>>

\* the command line with the options the traversal does not read left at
\* their defaults
Args(paths, exclude, include_hidden, ext, max_file_bytes, max_total_bytes, out, no_clip) ==
    [paths |-> paths, exclude |-> exclude, include_hidden |-> include_hidden, ext |-> ext,
     max_file_bytes |-> max_file_bytes, max_total_bytes |-> max_total_bytes,
     out |-> out, no_clip |-> no_clip]

NoResult == [blocks |-> <<>>, warnings |-> <<>>]

\* walk_inputs by itself: any tree, working directory, one input path,
\* exclusion list and hidden setting
InitWalk ==
    /\ fs \in Trees(AllFiles, MaxWalkFiles, {1}, Kinds \ {"flaky"})
    /\ cwd \in WorkDirs
    /\ \E p \in InputPaths, ex \in UserExcludes, h \in BOOLEAN :
        args = Args(<<p>>, DEFAULT_EXCLUDES \o ex, h, << <<42>> >>, 0, 0, FALSE, TRUE)
    /\ pc = "walk"
    /\ pidx = 1
    /\ stack = <<>>
    /\ walkroot = <<>>
    /\ entries = <<>>
    /\ idx = 1
    /\ total = 0
    /\ included = 0
    /\ blocks = <<>>
    /\ warnings = <<>>
    /\ intro = [file_count |-> 0, total_bytes |-> 0]
    /\ outfile = "none"
    /\ clipboard = "none"
    /\ stdout = FALSE
    /\ exit = -1
    /\ run = 1
    /\ prev = NoResult

NextWalk == WalkInput \/ WalkDirStep

SpecWalk == InitWalk /\ [][NextWalk]_vars

\* the candidate lists bundle() may be handed: the files of a tree below
\* /w/p, each at most once, in any order
BundleFiles ==
    { <<n_w, n_p, n_a_py>>, <<n_w, n_p, n_A_py>>, <<n_w, n_p, n_B_py>>,
      <<n_w, n_p, n_s, n_b_py>> }

CandidateLists(tree) ==
    UNION { { [k \in 1..Len(o) |->
                 FileEntry(<<n_w, n_p>>, o[k], SubSeq(o[k], 3, Len(o[k])), tree[o[k]].len)] :
              o \in Orders(S) } :
            S \in SUBSET DOMAIN tree }

\* bundle() by itself: any candidate list and any two limits
InitBundle ==
    /\ fs \in Trees(BundleFiles, MaxEntries, 1..MaxLen, Kinds \ {"binary", "noopen"})
    /\ cwd = <<n_w, n_p>>
    /\ \E mf \in {0, MaxLen - 1}, mt \in {0 - 1, 0, MaxLen, MaxLen + 1} :
        args = Args(<< PathArg(FALSE, <<>>) >>, DEFAULT_EXCLUDES, FALSE, << <<42>> >>,
                    mf, mt, FALSE, TRUE)
    /\ entries \in CandidateLists(fs)
    /\ pc = "bundle"
    /\ pidx = 2
    /\ stack = <<>>
    /\ walkroot = <<n_w, n_p>>
    /\ idx = 1
    /\ total = 0
    /\ included = 0
    /\ blocks = <<>>
    /\ warnings = <<>>
    /\ intro = [file_count |-> 0, total_bytes |-> 0]
    /\ outfile = "none"
    /\ clipboard = "none"
    /\ stdout = FALSE
    /\ exit = -1
    /\ run = 1
    /\ prev = NoResult

NextBundle == BundleStart \/ BundleStep \/ BundleFinish

SpecBundle == InitBundle /\ [][NextBundle]_vars

----------------------------------------------------------------------------
(* copy_to_clipboard and main *)

\* what the host gives copy_to_clipboard: whether pyperclip.copy works, the
\* platform, and how the platform's commands end ("zero": exit status 0,
\* "nonzero", "notfound": FileNotFoundError, "raise": another exception)
ClipEnvs ==
    [pyperclip : {"ok", "raise"}, platform : {"darwin", "nt", "other"},
     first : {"zero", "nonzero", "notfound", "raise"},
     second : {"zero", "nonzero", "notfound", "raise"}]

\* lines 262-295: copy_to_clipboard's first result (ok).  On darwin and nt
\* `first` is pbcopy or clip and any exception is caught at line 292; on
\* other platforms `first` is xclip and `second` xsel, tried when xclip is
\* missing or exits non-zero
copy_to_clipboard(env) ==
    IF env.pyperclip = "ok" THEN TRUE
    ELSE IF env.platform \in {"darwin", "nt"} THEN env.first = "zero"
    ELSE IF env.first = "zero" THEN TRUE
    ELSE IF env.first = "raise" THEN FALSE
    ELSE env.second = "zero"

\* PrintsArtifact without the fallback after a failed copy
PrintsArtifactNoFallback(no_clip, ok) == no_clip

\* lines 339-347: does main print the artifact to standard output?
PrintsArtifact(no_clip, ok) == no_clip \/ ~ok

\* lines 316-321: every input path must exist
CheckPaths ==
    /\ pc = "start"
    /\ IF \E k \in 1..Len(args.paths) : ~Exists(Resolve(args.paths[k], cwd), fs, cwd)
       THEN pc' = "done" /\ exit' = 2
       ELSE pc' = "walk" /\ exit' = exit
    /\ UNCHANGED <<fs, cwd, args, pidx, stack, walkroot, entries, idx, total, included,
                   blocks, warnings, intro, outfile, clipboard, stdout, run, prev>>

\* lines 322-330: the traversal has ended; the extension filter, and the
\* exit when nothing is left
FilterExt ==
    /\ pc = "walk"
    /\ stack = <<>>
    /\ pidx > Len(args.paths)
    /\ entries' = filter_by_ext(entries, args.ext)
    /\ IF entries' = <<>>
       THEN pc' = "done" /\ exit' = 3
       ELSE pc' = "bundle" /\ exit' = exit
    /\ UNCHANGED <<fs, cwd, args, pidx, stack, walkroot, idx, total, included, blocks,
                   warnings, intro, outfile, clipboard, stdout, run, prev>>

\* lines 332-338: --out: the write succeeds or fails, and main goes on
WriteOut ==
    /\ pc = "out"
    /\ \E ok \in BOOLEAN :
        outfile' = IF args.out /\ ok THEN "artifact" ELSE outfile
    /\ pc' = "clip"
    /\ UNCHANGED <<fs, cwd, args, pidx, stack, walkroot, entries, idx, total, included,
                   blocks, warnings, intro, clipboard, stdout, exit, run, prev>>

\* lines 339-352: the clipboard, or standard output; return 0
Deliver ==
    /\ pc = "clip"
    /\ \E copied \in { copy_to_clipboard(env) : env \in ClipEnvs } :
        LET ok == ~args.no_clip /\ copied
        IN /\ clipboard' = IF ok THEN "artifact" ELSE clipboard
           /\ stdout' = PrintsArtifact(args.no_clip, ok)
    /\ exit' = 0
    /\ pc' = "done"
    /\ UNCHANGED <<fs, cwd, args, pidx, stack, walkroot, entries, idx, total, included,
                   blocks, warnings, intro, outfile, run, prev>>

\* lines 354-355: the program is run once more, on the same tree, from the
\* same directory, with the same command line
Rerun ==
    /\ pc = "done"
    /\ run = 1
    /\ run' = 2
    /\ prev' = [blocks |-> blocks, warnings |-> warnings]
    /\ pc' = "start"
    /\ pidx' = 1
    /\ stack' = <<>>
    /\ walkroot' = <<>>
    /\ entries' = <<>>
    /\ idx' = 1
    /\ total' = 0
    /\ included' = 0
    /\ blocks' = <<>>
    /\ warnings' = <<>>
    /\ intro' = [file_count |-> 0, total_bytes |-> 0]
    /\ outfile' = "none"
    /\ clipboard' = "none"
    /\ stdout' = FALSE
    /\ exit' = -1
    /\ UNCHANGED <<fs, cwd, args>>

\* the files of the trees the whole program is run on:
\*   /w/p/a.py  /w/p/A.py  /w/p/out/x.js  /w/p/s/b.js
MainFiles ==
    { <<n_w, n_p, n_a_py>>, <<n_w, n_p, n_A_py>>,
      <<n_w, n_p, n_out, n_x_js>>, <<n_w, n_p, n_s, n_b_js>> }

\* ".", "/w/p/a.py", "/w/zz"
MainPaths ==
    { PathArg(FALSE, <<>>), PathArg(TRUE, <<n_w, n_p, n_a_py>>), PathArg(TRUE, <<n_w, n_zz>>) }

\* --max-file-bytes and --max-total-bytes: no limits, or both
MainLimits == { <<0, 0>>, <<MaxLen - 1, MaxLen>> }

\* main: a tree, a command line
Init ==
    /\ fs \in Trees(MainFiles, MaxFiles, 1..MaxLen, Kinds \ {"noopen"})
    /\ cwd = <<n_w, n_p>>
    /\ \E p \in MainPaths, ext \in ExtArgs, lim \in MainLimits, o \in BOOLEAN, nc \in BOOLEAN :
        args = Args(<<p>>, DEFAULT_EXCLUDES, FALSE, ext, lim[1], lim[2], o, nc)
    /\ pc = "start"
    /\ pidx = 1
    /\ stack = <<>>
    /\ walkroot = <<>>
    /\ entries = <<>>
    /\ idx = 1
    /\ total = 0
    /\ included = 0
    /\ blocks = <<>>
    /\ warnings = <<>>
    /\ intro = [file_count |-> 0, total_bytes |-> 0]
    /\ outfile = "none"
    /\ clipboard = "none"
    /\ stdout = FALSE
    /\ exit = -1
    /\ run = 1
    /\ prev = NoResult

Next ==
    \/ CheckPaths
    \/ WalkInput
    \/ WalkDirStep
    \/ FilterExt
    \/ BundleStart
    \/ BundleStep
    \/ BundleFinish
    \/ WriteOut
    \/ Deliver

Spec == Init /\ [][Next]_vars

\* two runs of the program, one after the other
NextRerun == Next \/ Rerun

SpecRerun == Init /\ [][NextRerun]_vars

----------------------------------------------------------------------------
(* Properties of bundle(), under SpecBundle *)

\* the raw lengths, in the tree, of the files of a sequence of blocks
RECURSIVE RawSum(_, _)
RawSum(bs, tree) ==
    IF bs = <<>> THEN 0 ELSE tree[Head(bs).abspath].len + RawSum(Tail(bs), tree)

InBundle == pc \in {"loop", "out"}

\* C1: with max_total_bytes = B > 0, after every processed candidate the
\* running total is the sum of the raw lengths of the files included so far
\* and is at most B; the preamble reports that sum; with B <= 0 no candidate
\* is rejected for the total budget.
C1_BudgetAccounting ==
    /\ InBundle =>
        /\ total = RawSum(blocks, fs)
        /\ included = Len(blocks)
        /\ args.max_total_bytes > 0 => total <= args.max_total_bytes
        /\ args.max_total_bytes <= 0 => \A k \in 1..Len(warnings) : warnings[k].kind # "stop"
    /\ pc = "out" => intro.total_bytes = RawSum(blocks, fs) /\ intro.file_count = Len(blocks)

\* C1's case: a positive budget that was filled exactly by two files and
\* then stopped a third
C1_Witness ==
    /\ pc = "out"
    /\ args.max_total_bytes > 0
    /\ Len(blocks) >= 2
    /\ intro.total_bytes = args.max_total_bytes
    /\ \E k \in 1..Len(warnings) : warnings[k].kind = "stop"

\* is the candidate at position i of the sorted list in the artifact?
IncludedAt(i) == \E k \in 1..Len(blocks) : blocks[k].abspath = entries[i].path

\* the raw lengths of the included candidates before position i
RECURSIVE IncludedBefore(_)
IncludedBefore(i) ==
    IF i <= 1 THEN 0
    ELSE IncludedBefore(i - 1)
         + (IF IncludedAt(i - 1) THEN fs[entries[i - 1].path].len ELSE 0)

\* candidate i was read, and its raw length added to the files included
\* before it is over the budget
WouldExceed(i) ==
    /\ fs[entries[i].path].kind \notin {"flaky", "noopen"}
    /\ fs[entries[i].path].len + IncludedBefore(i) > args.max_total_bytes

\* candidate i was read, passes the per-file limit, and is over the budget
WouldExceedWithinFileLimit(i) ==
    /\ WouldExceed(i)
    /\ ~(args.max_file_bytes > 0 /\ fs[entries[i].path].len > args.max_file_bytes)

StoppedAt(i) ==
    /\ \A j \in i..Len(entries) : ~IncludedAt(j)
    /\ \E k \in 1..Len(warnings) :
        warnings[k].kind = "stop" /\ warnings[k].file = entries[i].rel

\* C2 as claimed: with B > 0, the first candidate in sorted order whose raw
\* length added to the files included before it would exceed B is excluded
\* together with every later candidate, with a warning naming it.
C2_Original ==
    (pc = "out" /\ args.max_total_bytes > 0) =>
        \A i \in 1..Len(entries) :
            (WouldExceed(i) /\ \A j \in 1..(i - 1) : ~WouldExceed(j)) => StoppedAt(i)

\* C2 as amended: with B > 0, the first candidate in sorted order that was
\* read, passes the per-file limit and whose raw length added to the files
\* included before it would exceed B is excluded together with every later
\* candidate, with a warning naming it.
C2_HardStop ==
    (pc = "out" /\ args.max_total_bytes > 0) =>
        \A i \in 1..Len(entries) :
            (WouldExceedWithinFileLimit(i)
             /\ \A j \in 1..(i - 1) : ~WouldExceedWithinFileLimit(j)) => StoppedAt(i)

\* C2's case: the stop came before the last candidate, and a later
\* candidate small enough to fit was left out
C2_Witness ==
    /\ pc = "out"
    /\ args.max_total_bytes > 0
    /\ \E i \in 1..Len(entries) :
        /\ WouldExceedWithinFileLimit(i)
        /\ StoppedAt(i)
        /\ \E j \in (i + 1)..Len(entries) :
            /\ fs[entries[j].path].kind \notin {"flaky", "noopen"}
            /\ fs[entries[j].path].len + total <= args.max_total_bytes
            /\ ~IncludedAt(j)

\* C3: of any two file blocks of the artifact, the earlier one's relative
\* path is less than or equal to the later one's when both are lower-cased.
C3_OutputOrder ==
    \A i, j \in 1..Len(blocks) :
        i < j => StrLeq(Lower(RelStr(blocks[i].path)), Lower(RelStr(blocks[j].path)))

\* C3's case: two blocks whose case-sensitive order is the other way round,
\* around a candidate that was skipped
C3_Witness ==
    /\ pc = "out"
    /\ warnings # <<>>
    /\ \E i, j \in 1..Len(blocks) :
        i < j /\ StrLess(RelStr(blocks[j].path), RelStr(blocks[i].path))

\* the candidate the loop is at fails to read or is over the per-file limit
SkipCase ==
    /\ pc = "loop"
    /\ idx <= Len(entries)
    /\ \/ entries[idx].path \notin DOMAIN fs
       \/ fs[entries[idx].path].kind \in {"flaky", "noopen"}
       \/ (args.max_file_bytes > 0 /\ fs[entries[idx].path].len > args.max_file_bytes)

\* C5: a candidate whose read fails, or whose raw length is over
\* max_file_bytes > 0, adds exactly one warning and changes nothing else:
\* total, count and blocks stay, and the loop goes on with the next
\* candidate.
C5_SkipFrame ==
    [][SkipCase =>
        /\ Len(warnings') = Len(warnings) + 1
        /\ SubSeq(warnings', 1, Len(warnings)) = warnings
        /\ warnings'[Len(warnings')].kind \in {"read", "size"}
        /\ total' = total
        /\ included' = included
        /\ blocks' = blocks
        /\ entries' = entries
        /\ idx' = idx + 1
        /\ pc' = "loop"]_vars

\* C5's case: an oversized candidate that would also have broken the total
\* budget was skipped, and the loop is at a later candidate
C5_Witness ==
    /\ pc = "loop"
    /\ 1 < idx /\ idx <= Len(entries)
    /\ warnings # <<>>
    /\ warnings[Len(warnings)].kind = "size"
    /\ warnings[Len(warnings)].file = entries[idx - 1].rel
    /\ args.max_total_bytes > 0
    /\ total + fs[entries[idx - 1].path].len > args.max_total_bytes

----------------------------------------------------------------------------
(* Properties of walk_inputs, under SpecWalk *)

\* C9: no yielded candidate has, among the directory components of its
\* path below the input root, a directory that is hidden (include_hidden
\* false) or matched by an exclusion pattern by bare name or by full path.
C9_NoPrunedAncestor ==
    \A k \in 1..Len(entries) :
        \A m \in 1..(Len(entries[k].rel) - 1) :
            LET d == entries[k].rel[m]
                full == AbsStr(entries[k].root \o SubSeq(entries[k].rel, 1, m))
            IN /\ ~(~args.include_hidden /\ StartsWith(d, Dot))
               /\ ~MatchesAny(d, args.exclude, cwd)
               /\ ~MatchesAny(full, args.exclude, cwd)

\* C9's case: the walk of a directory is over, it yielded a candidate from
\* a subdirectory, and the tree holds a text file that passes every file
\* check but lies in a subdirectory excluded by a pattern
C9_Witness ==
    /\ pidx > Len(args.paths)
    /\ IsDir(Resolve(args.paths[1], cwd), fs, cwd)
    /\ \E k \in 1..Len(entries) : Len(entries[k].rel) > 1
    /\ \E f \in DOMAIN fs :
        LET r == Resolve(args.paths[1], cwd) IN
        /\ IsPrefix(r, f)
        /\ Len(f) > Len(r) + 1
        /\ fs[f].kind = "text"
        /\ ~IsHiddenName(f[Len(f)])
        /\ ~MatchesAny(f[Len(f)], args.exclude, cwd)
        /\ ~MatchesAny(AbsStr(f), args.exclude, cwd)
        /\ MatchesAny(f[Len(r) + 1], args.exclude, cwd)
        /\ \A k \in 1..Len(entries) : entries[k].path # f

\* C10 as claimed: with include_hidden false a file is skipped exactly when
\* a segment of its resolved path starts with '.', whether it was given as
\* an input path or reached from a directory input: no candidate has such
\* a segment.
C10_SameHiddenRule ==
    ~args.include_hidden =>
        \A k \in 1..Len(entries) :
            \A m \in 1..Len(entries[k].path) : ~StartsWith(entries[k].path[m], Dot)

----------------------------------------------------------------------------
(* Properties of the whole program, under Spec and SpecRerun *)

Returned == pc = "done" /\ exit = 0

\* the input path a file was discovered under
UnderInput(f) == IsPrefix(Resolve(args.paths[1], cwd), f)

\* the file is left out by the hidden rule or by an exclusion pattern,
\* itself or through a directory between the input path and it
HiddenOrExcluded(f) ==
    LET r == Resolve(args.paths[1], cwd) IN
    IF r = f
    THEN \/ (~args.include_hidden /\ \E m \in 1..Len(f) : StartsWith(f[m], Dot))
         \/ MatchesAny(f[Len(f)], args.exclude, cwd)
         \/ MatchesAny(AbsStr(f), args.exclude, cwd)
    ELSE \E m \in (Len(r) + 1)..Len(f) :
            \/ (~args.include_hidden /\ StartsWith(f[m], Dot))
            \/ MatchesAny(f[m], args.exclude, cwd)
            \/ MatchesAny(AbsStr(SubSeq(f, 1, m)), args.exclude, cwd)

\* the file is left out by the extension filter
ExtFiltered(f) ==
    /\ args.ext # << <<42>> >>
    /\ \A k \in 1..Len(args.ext) : Lower(args.ext[k]) # Lower(Suffix(f[Len(f)]))

\* C4 as claimed: every discovered file that is absent from the result for
\* a reason other than the extension filter or a hidden/pattern exclusion
\* has a warning of its own in the returned warnings.
C4_NoSilentDrop ==
    Returned =>
        \A f \in DOMAIN fs :
            (/\ UnderInput(f)
             /\ ~HiddenOrExcluded(f)
             /\ ~ExtFiltered(f)
             /\ \A k \in 1..Len(blocks) : blocks[k].abspath # f)
            => \E k \in 1..Len(warnings) :
                   \/ warnings[k].file = f
                   \/ warnings[k].file = SubSeq(f, Len(entries[1].root) + 1, Len(f))

\* C6 as claimed: main returns 0 only when at least one file was included.
C6_ZeroOnlyIfBundled == Returned => Len(blocks) >= 1

\* C7: once the artifact is computed, main ends with the artifact on the
\* clipboard or on standard output, whatever the file write and the
\* clipboard copy did; a failed or disabled copy means standard output.
C7_ArtifactDelivered == Returned => (clipboard = "artifact" \/ stdout)

\* C7's case: the file write failed, the clipboard copy was tried and
\* failed, and the artifact went to standard output
C7_Witness ==
    /\ Returned
    /\ args.out
    /\ outfile = "none"
    /\ ~args.no_clip
    /\ clipboard = "none"
    /\ stdout

\* C8 as claimed: a second run on the same tree with the same command line
\* returns the same file blocks and the same warnings as the first.
C8_SameResultTwice ==
    (pc = "done" /\ run = 2) => (blocks = prev.blocks /\ warnings = prev.warnings)

====
